---------------------------- MODULE Spec2Model ----------------------------
(***************************************************************************)
(* Continuous-time Markov cohort simulation of MarkovClasses.py:           *)
(* Patient.simulate (the Gillespie loop), PatientStateMonitor.update,      *)
(* Cohort.simulate and CohortOutcomes.                                     *)
(*                                                                         *)
(* Time is counted in whole quanta: a sampled holding time dt is a         *)
(* positive number of quanta.  A positive transition rate is the rate 1,   *)
(* since only the sign of a rate decides which transitions can be drawn.   *)
(* The random stream of numpy's RandomState(seed) is a function of the     *)
(* seed alone: `stream' holds, for every seed, the draws that have been    *)
(* observed so far, and a generator that asks for a draw already observed  *)
(* gets the same draw again.                                               *)
(***************************************************************************)
EXTENDS Integers, Sequences, FiniteSets, Bags, TLC

(***************************************************************************)
(* Bounds of the model.                                                    *)
(***************************************************************************)
MaxPositiveRates == 2   \* positive entries of a transition rate matrix
MaxSimLength == 2       \* longest simulation horizon
MaxPopSize == 2         \* largest cohort

SimLengths == -1 .. MaxSimLength
PopSizes == 0 .. MaxPopSize
\* the cohort's id: ids other than 0 make the patient ids depend on popSize
CohortIds == {1}
\* sampled holding times, in quanta
HoldingTimes == {1, 2}
\* no run of Patient.simulate needs more draws than this
MaxDraws == MaxSimLength + 2
\* a cohort is simulated once, or once and then once again
Simulations == {1, 2}
\* seeds of the random streams: every patient id
Seeds == 0 .. (2 * MaxPopSize)

(***************************************************************************)
(* InputData.HealthStates: the enumeration and its integer values.         *)
(***************************************************************************)
HealthStates == <<"WELL", "STROKE", "STROKE_DEAD", "NATURAL_DEATH">>

StateIndices == 0 .. (Len(HealthStates) - 1)

\* HealthStates.X.value
value(state) == (CHOOSE k \in 1 .. Len(HealthStates) : HealthStates[k] = state) - 1

\* HealthStates(index)
HealthStateOf(index) == HealthStates[index + 1]

\* "new_state in (HealthStates.STROKE_DEAD, HealthStates.NATURAL_DEATH)"
DeathStates == {"STROKE_DEAD", "NATURAL_DEATH"}

\* "new_state in (HealthStates.STROKE, HealthStates.STROKE_DEAD)"
StrokeStates == {"STROKE", "STROKE_DEAD"}

(***************************************************************************)
(* Python's None, and an optional value.                                   *)
(***************************************************************************)
None == <<>>

Some(x) == <<x>>

(***************************************************************************)
(* Transition rate matrices: square, zero diagonal, rates 0 or 1.          *)
(***************************************************************************)
Edges == {e \in StateIndices \X StateIndices : e[1] # e[2]}

MatrixOf(E) == [i \in StateIndices |-> [j \in StateIndices |->
                  IF <<i, j>> \in E THEN 1 ELSE 0]]

\* the states a patient who starts in WELL can come to under the rates E
RECURSIVE Reachable(_, _)
Reachable(E, S) ==
    LET more == S \cup {e[2] : e \in {f \in E : f[1] \in S}}
    IN IF more = S THEN S ELSE Reachable(E, more)

\* Rows of states no patient can come to are never read: the family holds
\* every matrix of at most MaxPositiveRates positive rates, all of them in
\* rows a patient can come to.
RateMatrices ==
    {MatrixOf(E) : E \in {F \in SUBSET Edges :
                             /\ Cardinality(F) <= MaxPositiveRates
                             /\ \A e \in F : e[1] \in Reachable(F, {0})}}

(***************************************************************************)
(* SimPy.Markov.Gillespie: the stepper.                                    *)
(***************************************************************************)
RECURSIVE SumOver(_, _)
SumOver(f, S) == IF S = {} THEN 0
                 ELSE LET x == CHOOSE y \in S : TRUE
                      IN f[x] + SumOver(f, S \ {x})

\* total rate out of state i (the diagonal is ignored)
out_rate(matrix, i) == SumOver(matrix[i], StateIndices \ {i})

\* the stepper answers (None, _) exactly for these states
IsAbsorbing(matrix, i) == out_rate(matrix, i) = 0

\* the destinations the categorical draw can return
Destinations(matrix, i) == {j \in StateIndices \ {i} : matrix[i][j] > 0}

VARIABLES
    transRateMatrix,   \* Cohort.transRateMatrix, shared by every patient
    cohort,            \* Cohort.id and Cohort.popSize
    cohortOutcomes,    \* the CohortOutcomes object of the cohort
    pc,                \* where the caller of Cohort.simulate is
    raised,            \* the exception that left Cohort.simulate, or None
    nSimulations,      \* calls of Cohort.simulate so far
    sim_length,        \* the argument of Cohort.simulate
    i,                 \* the loop index of Cohort.simulate
    patient,           \* the Patient of the current iteration
    rng,               \* Patient.simulate: the patient's generator
    t,                 \* Patient.simulate: simulation time
    if_stop,           \* Patient.simulate: loop flag
    stream,            \* the draws observed so far of each seed's stream
    trace,             \* the calls of stateMonitor.update of the current patient
    history,           \* per patient id, the first completed run
    order              \* the order in which a second simulation takes the patients

vars == <<transRateMatrix, cohort, cohortOutcomes, pc, raised, nSimulations,
          sim_length, i, patient, rng, t, if_stop, stream, trace, history,
          order>>

(***************************************************************************)
(* PatientStateMonitor                                                     *)
(***************************************************************************)
\* PatientStateMonitor.__init__
NewStateMonitor == [currentState |-> "WELL", survivalTime |-> None, nStrokes |-> 0]

\* update with the two membership tests exchanged
update_TestsExchanged(m, time, new_state) ==
    [currentState |-> new_state,
     survivalTime |-> IF new_state \in StrokeStates THEN Some(time)
                      ELSE m.survivalTime,
     nStrokes     |-> IF new_state \in DeathStates THEN m.nStrokes + 1
                      ELSE m.nStrokes]

\* update with the stroke test as the elif of the death test
update_ExclusiveTests(m, time, new_state) ==
    [currentState |-> new_state,
     survivalTime |-> IF new_state \in DeathStates THEN Some(time)
                      ELSE m.survivalTime,
     nStrokes     |-> IF new_state \notin DeathStates /\ new_state \in StrokeStates
                      THEN m.nStrokes + 1
                      ELSE m.nStrokes]

\* update that takes every stroke for a death
update_StrokeIsDeath(m, time, new_state) ==
    [currentState |-> new_state,
     survivalTime |-> IF new_state \in DeathStates \cup StrokeStates THEN Some(time)
                      ELSE m.survivalTime,
     nStrokes     |-> IF new_state \in StrokeStates THEN m.nStrokes + 1
                      ELSE m.nStrokes]

\* PatientStateMonitor.update(time, new_state)
update(m, time, new_state) ==
    [currentState |-> new_state,
     survivalTime |-> IF new_state \in DeathStates THEN Some(time)
                      ELSE m.survivalTime,
     nStrokes     |-> IF new_state \in StrokeStates THEN m.nStrokes + 1
                      ELSE m.nStrokes]

(***************************************************************************)
(* Patient                                                                 *)
(***************************************************************************)
\* Patient.__init__
NewPatient(id) == [id |-> id, stateMonitor |-> NewStateMonitor]

\* the cohort's size is left out of the id
PatientId_NoSize(c, n) == c.id + n

\* Cohort.simulate: the id of the n-th patient
PatientId(c, n) == c.id * c.popSize + n

\* one generator shared by the patients: the stream continues where the
\* patients before left it
RandomState_Shared(p) == [seed |-> Len(cohortOutcomes.nTotalStrokes), pos |-> 0]

\* Patient.simulate: rng = np.random.RandomState(seed=self.id)
RandomState(p) == [seed |-> p.id, pos |-> 0]

\* Patient.simulate: "if dt + t > sim_length"
Overshoots(dt, time, len) == dt + time > len

\* the time is advanced without looking at the horizon
NextTime_NoClamp(dt, time, len) == time + dt

\* Patient.simulate: the time after a step whose holding time is dt
NextTime(dt, time, len) == IF Overshoots(dt, time, len) THEN len ELSE time + dt

\* Patient.simulate: the state index passed on to update
NextStateIndex(dt, time, len, current, sampled) ==
    IF Overshoots(dt, time, len) THEN current ELSE sampled

\* the branch of the overshoot forgets "if_stop = True"
NextStop_Never(dt, time, len) == FALSE

\* Patient.simulate: if_stop after a step whose holding time is dt
NextStop(dt, time, len) == Overshoots(dt, time, len)

(***************************************************************************)
(* CohortOutcomes                                                          *)
(***************************************************************************)
\* CohortOutcomes.__init__
NewCohortOutcomes ==
    [survivalTimes |-> <<>>, nTotalStrokes |-> <<>>, nLivingPatients |-> None,
     meanSurvivalTime |-> None, meanNumOfStrokes |-> None]

\* a survival time is recorded for every patient, 0 for those alive
ExtractSurvivalTimes_Always(times, m) ==
    Append(times, IF m.survivalTime # None THEN m.survivalTime[1] ELSE 0)

\* CohortOutcomes.extract_outcome: the survival times after the patient
ExtractSurvivalTimes(times, m) ==
    IF m.survivalTime # None THEN Append(times, m.survivalTime[1])
    ELSE times

\* only patients who had a stroke are recorded
ExtractStrokes_OnlyPositive(strokes, m) ==
    IF m.nStrokes > 0 THEN Append(strokes, m.nStrokes) ELSE strokes

\* CohortOutcomes.extract_outcome: the stroke counts after the patient
ExtractStrokes(strokes, m) == Append(strokes, m.nStrokes)

RECURSIVE sum(_)
sum(s) == IF s = <<>> THEN 0 ELSE Head(s) + sum(Tail(s))

\* an empty list is given a default mean instead of an error
Divides_Always(xs) == TRUE

\* sum(xs) / len(xs) has a value unless len(xs) is 0 (ZeroDivisionError)
Divides(xs) == Len(xs) # 0

\* the sum starts at the second entry
Mean_SkipsFirst(xs) == [num |-> sum(SubSeq(xs, 2, Len(xs))), den |-> Len(xs)]

\* sum(xs) / len(xs): the quotient as an exact fraction
Mean(xs) == [num |-> sum(xs), den |-> Len(xs)]

\* every death adds a living patient
Increments_Plus(times) == [k \in 1 .. Len(times) |-> 1]

\* "[-1]*len(self.survivalTimes)"
Increments(times) == [k \in 1 .. Len(times) |-> -1]

\* the arguments calculate_cohort_outcomes gives to PrevalencePathBatchUpdate
PathArguments(initial_pop_size, times) ==
    [initial_size |-> initial_pop_size, times_of_changes |-> times,
     increments |-> Increments(times)]

(***************************************************************************)
(* SimPy.SamplePath.PrevalencePathBatchUpdate: the changes are sorted by   *)
(* time, then applied one by one to the running size.                      *)
(***************************************************************************)
Changes(args) == [k \in 1 .. Len(args.times_of_changes) |->
                    <<args.times_of_changes[k], args.increments[k]>>]

SortedChanges(args) == SortSeq(Changes(args), LAMBDA a, b : a[1] < b[1])

RECURSIVE ApplyChanges(_, _)
ApplyChanges(path, changes) ==
    IF changes = <<>> THEN path
    ELSE ApplyChanges(
            Append(path, [time |-> Head(changes)[1],
                          size |-> path[Len(path)].size + Head(changes)[2]]),
            Tail(changes))

PrevalencePathBatchUpdate(args) ==
    ApplyChanges(<<[time |-> 0, size |-> args.initial_size]>>, SortedChanges(args))

\* the stroke mean is brought up to date with every patient
extract_outcome_Summarises(o, simulated_patient) ==
    [o EXCEPT
        !.survivalTimes = ExtractSurvivalTimes(@, simulated_patient.stateMonitor),
        !.nTotalStrokes = ExtractStrokes(@, simulated_patient.stateMonitor),
        !.meanNumOfStrokes =
            Some(Mean(ExtractStrokes(o.nTotalStrokes, simulated_patient.stateMonitor)))]

\* CohortOutcomes.extract_outcome(simulated_patient) on the outcomes o
extract_outcome(o, simulated_patient) ==
    [o EXCEPT
        !.survivalTimes = ExtractSurvivalTimes(@, simulated_patient.stateMonitor),
        !.nTotalStrokes = ExtractStrokes(@, simulated_patient.stateMonitor)]

(***************************************************************************)
(* Initial state: a constructed Cohort, not yet simulated.                 *)
(***************************************************************************)
\* the orders in which n patients, numbered from 0, can be taken
Orders(n) == {o \in [1 .. n -> 0 .. (n - 1)] :
                \A a, b \in 1 .. n : a # b => o[a] # o[b]}

\* "range(n)"
range(n) == [k \in 1 .. n |-> k - 1]

InitCohort ==
    /\ transRateMatrix \in RateMatrices
    /\ cohort \in [id : CohortIds, popSize : PopSizes]
    /\ cohortOutcomes = NewCohortOutcomes
    /\ pc = "idle"
    /\ raised = None
    /\ nSimulations = 0
    /\ sim_length = 0
    /\ i = 0
    /\ patient = NewPatient(0)
    /\ rng = [seed |-> 0, pos |-> 0]
    /\ t = 0
    /\ if_stop = TRUE
    /\ stream = [s \in Seeds |-> <<>>]
    /\ trace = <<>>
    /\ history = [s \in Seeds |-> None]

\* Cohort.simulate takes the patients in the order of range(popSize), each
\* time it is called.
Init == InitCohort /\ order = range(cohort.popSize)

\* The patients of a cohort of at most two, simulated by Cohort.simulate and
\* then once more in an order of the caller's choosing (each with
\* Patient.simulate and extract_outcome, then calculate_cohort_outcomes).
InitReorder ==
    /\ InitCohort
    /\ cohort.popSize <= 2
    /\ order \in Orders(cohort.popSize)

patientVars == <<patient, rng, t, if_stop, trace>>

(***************************************************************************)
(* Cohort.simulate(sim_length) is called.  A second call uses the horizon  *)
(* of the first.                                                           *)
(***************************************************************************)
CohortSimulate ==
    /\ pc \in {"idle", "returned", "raised", "recalculated"}
    /\ nSimulations + 1 \in Simulations
    /\ \E len \in SimLengths :
          /\ nSimulations > 0 => len = sim_length
          /\ sim_length' = len
    /\ nSimulations' = nSimulations + 1
    /\ i' = 0
    /\ raised' = None
    /\ pc' = "for"
    /\ UNCHANGED <<transRateMatrix, cohort, cohortOutcomes, stream, history, order>>
    /\ UNCHANGED patientVars

(***************************************************************************)
(* Cohort.simulate: one more iteration of "for i in range(self.popSize)":  *)
(* the patient is created and Patient.simulate starts.                     *)
(***************************************************************************)
PatientSimulate ==
    /\ pc = "for"
    /\ i < cohort.popSize
    /\ LET n == IF nSimulations = 1 THEN range(cohort.popSize)[i + 1] ELSE order[i + 1]
           p == NewPatient(PatientId(cohort, n))
       IN /\ patient' = p
          /\ rng' = RandomState(p)
    /\ t' = 0
    /\ if_stop' = FALSE
    /\ trace' = <<>>
    /\ pc' = "while"
    /\ UNCHANGED <<transRateMatrix, cohort, cohortOutcomes, raised, nSimulations,
                   sim_length, i, stream, history, order>>

\* the monitor is brought up to date once more before the loop stops
StepAbsorbing_Updates ==
    /\ pc = "while"
    /\ ~if_stop
    /\ IsAbsorbing(transRateMatrix, value(patient.stateMonitor.currentState))
    /\ if_stop' = TRUE
    /\ patient' = [patient EXCEPT !.stateMonitor =
                      update(@, t, patient.stateMonitor.currentState)]
    /\ trace' = Append(trace, [time |-> t,
                               new_state |-> patient.stateMonitor.currentState,
                               clamped |-> FALSE])
    /\ UNCHANGED <<transRateMatrix, cohort, cohortOutcomes, pc, raised,
                   nSimulations, sim_length, i, rng, t, stream, history, order>>

(***************************************************************************)
(* Patient.simulate, one iteration of the while loop in an absorbing       *)
(* state: dt is None, the loop stops, update is not called.                *)
(***************************************************************************)
StepAbsorbing ==
    /\ pc = "while"
    /\ ~if_stop
    /\ IsAbsorbing(transRateMatrix, value(patient.stateMonitor.currentState))
    /\ if_stop' = TRUE
    /\ UNCHANGED <<transRateMatrix, cohort, cohortOutcomes, pc, raised,
                   nSimulations, sim_length, i, patient, rng, t, stream, trace,
                   history, order>>

(***************************************************************************)
(* Patient.simulate, one iteration of the while loop in a state with a     *)
(* positive rate out: the holding time dt and the destination are drawn    *)
(* from the patient's stream, the time is advanced or clamped, and the     *)
(* monitor is updated.                                                     *)
(***************************************************************************)
StepTransition ==
    /\ pc = "while"
    /\ ~if_stop
    /\ rng.pos < MaxDraws
    /\ LET current == value(patient.stateMonitor.currentState)
           known == stream[rng.seed]
       IN /\ ~IsAbsorbing(transRateMatrix, current)
          /\ \E dt \in HoldingTimes, new_state_index \in Destinations(transRateMatrix, current) :
                LET draw == [dt |-> dt, state |-> new_state_index]
                    time == NextTime(dt, t, sim_length)
                    index == NextStateIndex(dt, t, sim_length, current, new_state_index)
                IN /\ rng.pos < Len(known) => draw = known[rng.pos + 1]
                   /\ stream' = IF rng.pos < Len(known) THEN stream
                                ELSE [stream EXCEPT ![rng.seed] = Append(known, draw)]
                   /\ rng' = [rng EXCEPT !.pos = @ + 1]
                   /\ t' = time
                   /\ if_stop' = NextStop(dt, t, sim_length)
                   /\ patient' = [patient EXCEPT !.stateMonitor =
                                     update(@, time, HealthStateOf(index))]
                   /\ trace' = Append(trace,
                                  [time |-> time, new_state |-> HealthStateOf(index),
                                   clamped |-> Overshoots(dt, t, sim_length)])
    /\ UNCHANGED <<transRateMatrix, cohort, cohortOutcomes, pc, raised,
                   nSimulations, sim_length, i, history, order>>

(***************************************************************************)
(* Patient.simulate has returned; Cohort.simulate stores the outcome       *)
(* (CohortOutcomes.extract_outcome) and goes to the next iteration.        *)
(***************************************************************************)
ExtractOutcome ==
    /\ pc = "while"
    /\ if_stop
    /\ cohortOutcomes' = extract_outcome(cohortOutcomes, patient)
    /\ history' = IF history[patient.id] = None
                  THEN [history EXCEPT ![patient.id] =
                           Some([sim_length |-> sim_length, trace |-> trace,
                                 stateMonitor |-> patient.stateMonitor])]
                  ELSE history
    /\ i' = i + 1
    /\ pc' = "for"
    /\ UNCHANGED <<transRateMatrix, cohort, raised, nSimulations, sim_length, stream,
                   order>>
    /\ UNCHANGED patientVars

(***************************************************************************)
(* CohortOutcomes.calculate_cohort_outcomes(initial_pop_size) on the       *)
(* outcomes o: the outcomes it leaves and the exception it raises, if any. *)
(* With no survival time, sum([]) / len([]) raises ZeroDivisionError       *)
(* before anything is assigned; with no stroke count the second division   *)
(* raises after meanSurvivalTime has been assigned.                        *)
(***************************************************************************)
calculate_cohort_outcomes_Consumes(o, initial_pop_size) ==
    IF ~Divides(o.survivalTimes)
    THEN [outcomes |-> o, raised |-> Some("ZeroDivisionError")]
    ELSE [outcomes |-> [o EXCEPT
                           !.meanSurvivalTime = Some(Mean(o.survivalTimes)),
                           !.meanNumOfStrokes = Some(Mean(o.nTotalStrokes)),
                           !.nLivingPatients = Some(PrevalencePathBatchUpdate(
                               PathArguments(initial_pop_size, o.survivalTimes))),
                           !.survivalTimes = <<>>],
          raised |-> None]

calculate_cohort_outcomes(o, initial_pop_size) ==
    IF ~Divides(o.survivalTimes)
    THEN [outcomes |-> o, raised |-> Some("ZeroDivisionError")]
    ELSE IF ~Divides(o.nTotalStrokes)
    THEN [outcomes |-> [o EXCEPT !.meanSurvivalTime = Some(Mean(o.survivalTimes))],
          raised |-> Some("ZeroDivisionError")]
    ELSE [outcomes |-> [o EXCEPT
                           !.meanSurvivalTime = Some(Mean(o.survivalTimes)),
                           !.meanNumOfStrokes = Some(Mean(o.nTotalStrokes)),
                           !.nLivingPatients = Some(PrevalencePathBatchUpdate(
                               PathArguments(initial_pop_size, o.survivalTimes)))],
          raised |-> None]

(***************************************************************************)
(* Cohort.simulate: the loop is over, calculate_cohort_outcomes runs with  *)
(* the cohort's population size, and simulate returns or the exception     *)
(* propagates.                                                             *)
(***************************************************************************)
CalculateCohortOutcomes ==
    /\ pc = "for"
    /\ i >= cohort.popSize
    /\ LET result == calculate_cohort_outcomes(cohortOutcomes, cohort.popSize)
       IN /\ cohortOutcomes' = result.outcomes
          /\ raised' = result.raised
          /\ pc' = IF result.raised = None THEN "returned" ELSE "raised"
    /\ UNCHANGED <<transRateMatrix, cohort, nSimulations, sim_length, i, stream, history,
                   order>>
    /\ UNCHANGED patientVars

(***************************************************************************)
(* The caller calls cohortOutcomes.calculate_cohort_outcomes once more,    *)
(* with the same initial_pop_size and no extract_outcome in between.       *)
(***************************************************************************)
Recalculate ==
    /\ pc \in {"returned", "raised", "recalculated"}
    /\ LET result == calculate_cohort_outcomes(cohortOutcomes, cohort.popSize)
       IN /\ cohortOutcomes' = result.outcomes
          /\ raised' = result.raised
    /\ pc' = "recalculated"
    /\ UNCHANGED <<transRateMatrix, cohort, nSimulations, sim_length, i, stream, history,
                   order>>
    /\ UNCHANGED patientVars

Next ==
    \/ CohortSimulate
    \/ PatientSimulate
    \/ StepAbsorbing
    \/ StepTransition
    \/ ExtractOutcome
    \/ CalculateCohortOutcomes
    \/ Recalculate

Spec == Init /\ [][Next]_vars

\* the second simulation takes the patients in any order
OrderSpec == InitReorder /\ [][Next]_vars

\* The cohorts of at most one patient.
InitOnePatient == Init /\ cohort.popSize <= 1

\* The program is sequential: a step that can be taken is taken.  The runs
\* of Patient.simulate do not depend on one another, so its termination is
\* checked on the cohorts of at most one patient, simulated once or twice.
FairSpec == InitOnePatient /\ [][Next]_vars /\ WF_vars(Next)

(***************************************************************************)
(* Vocabulary of the properties.                                           *)
(***************************************************************************)
\* Patient.simulate is running its while loop
InLoop == pc = "while" /\ ~if_stop

\* Patient.simulate has just returned
Returned == pc = "while" /\ if_stop

\* the current patient's PatientStateMonitor
stateMonitor == patient.stateMonitor

\* the state the patient was in before the k-th call of update
StateBefore(k) == IF k = 1 THEN NewStateMonitor.currentState ELSE trace[k - 1].new_state

\* the calls of update that applied a sampled transition
Applied == {k \in 1 .. Len(trace) : ~trace[k].clamped}

\* the sampled transitions applied whose destination is a stroke state
AppliedStrokes == {k \in Applied : trace[k].new_state \in StrokeStates}

\* the death states are absorbing in the matrix
DeathStatesAbsorbing ==
    \A state \in DeathStates : IsAbsorbing(transRateMatrix, value(state))

\* this step is an iteration of the while loop that called update
CallsUpdate == InLoop /\ Len(trace') = Len(trace) + 1

\* this step is an iteration of the while loop that overshot the horizon
ClampStep == CallsUpdate /\ trace'[Len(trace')].clamped

(***************************************************************************)
(* C1: Patient.simulate terminates.  Every iteration of the while loop     *)
(* stops the loop (absorbing state, or horizon overshot and time clamped)  *)
(* or strictly advances t, which stays at most sim_length; and a loop that *)
(* has started eventually has if_stop set.                                 *)
(***************************************************************************)
C1_IterationProgress ==
    InLoop /\ pc' = "while" =>
        \/ if_stop'
        \/ t' > t /\ t' <= sim_length

C1_Terminates ==
    /\ [][C1_IterationProgress]_vars
    /\ (InLoop ~> Returned)

\* a run that advanced the time at least once and then stopped
C1_Witness == Returned /\ Len(trace) >= 2 /\ t > 0

(***************************************************************************)
(* C2: when Patient.simulate returns, nStrokes is the number of sampled    *)
(* transitions applied during the run whose destination was STROKE or      *)
(* STROKE_DEAD (a patient still in STROKE at the horizon is counted once   *)
(* per stroke entered).  Stated for the matrices whose death states are   *)
(* absorbing, where no patient leaves a death state.                       *)
(***************************************************************************)
C2_StrokesAreAppliedTransitions ==
    Returned /\ DeathStatesAbsorbing =>
        stateMonitor.nStrokes = Cardinality(AppliedStrokes)

(***************************************************************************)
(* C3: with STROKE_DEAD and NATURAL_DEATH absorbing and sim_length > 0,    *)
(* when Patient.simulate returns in a death state survivalTime is the time *)
(* at which that state was entered, at most sim_length; when it returns in *)
(* another state survivalTime is None.                                     *)
(***************************************************************************)
C3_SurvivalTimeIsTimeOfDeath ==
    Returned /\ DeathStatesAbsorbing /\ sim_length > 0 =>
        IF stateMonitor.currentState \in DeathStates
        THEN /\ Applied # {}
             /\ LET entered == CHOOSE k \in Applied : \A n \in Applied : n <= k
                IN /\ trace[entered].new_state = stateMonitor.currentState
                   /\ StateBefore(entered) # stateMonitor.currentState
                   /\ stateMonitor.survivalTime = Some(trace[entered].time)
                   /\ trace[entered].time <= sim_length
        ELSE stateMonitor.survivalTime = None

\* a patient who had a stroke and died of it later, within the horizon
C3_Witness ==
    /\ Returned /\ DeathStatesAbsorbing /\ sim_length > 0
    /\ stateMonitor.currentState \in DeathStates
    /\ Len(trace) >= 2
    /\ stateMonitor.survivalTime # None /\ stateMonitor.survivalTime[1] > trace[1].time

(***************************************************************************)
(* C4: with sim_length > 0, every time passed to update lies in            *)
(* [0, sim_length]; when Patient.simulate returns, 0 <= t <= sim_length    *)
(* and currentState is absorbing or is the state the patient occupied when *)
(* t was clamped to sim_length.                                            *)
(***************************************************************************)
C4_TimeWithinHorizon ==
    pc = "while" /\ sim_length > 0 =>
        /\ \A k \in 1 .. Len(trace) : 0 <= trace[k].time /\ trace[k].time <= sim_length
        /\ if_stop =>
              /\ 0 <= t /\ t <= sim_length
              /\ \/ IsAbsorbing(transRateMatrix, value(stateMonitor.currentState))
                 \/ /\ trace # <<>>
                    /\ trace[Len(trace)].clamped
                    /\ t = sim_length
                    /\ stateMonitor.currentState = StateBefore(Len(trace))

\* a patient stopped by the horizon in a state that is not absorbing
C4_Witness ==
    /\ Returned /\ sim_length > 0
    /\ ~IsAbsorbing(transRateMatrix, value(stateMonitor.currentState))
    /\ Len(trace) >= 2
    /\ t = sim_length

(***************************************************************************)
(* C5: an iteration that overshoots the horizon discards the sampled       *)
(* destination: currentState and survivalTime are as before the step, the  *)
(* loop stops and t = sim_length.                                          *)
(***************************************************************************)
C5_ClampKeepsStateAndSurvivalTime ==
    [][ClampStep =>
          /\ patient'.stateMonitor.currentState = stateMonitor.currentState
          /\ patient'.stateMonitor.survivalTime = stateMonitor.survivalTime
          /\ if_stop'
          /\ t' = sim_length]_vars

\* Cohort.simulate has ended, by returning or by raising
SimulateEnded == pc \in {"returned", "raised"}

\* calculate_cohort_outcomes is about to run
AtCalculate == pc = "for" /\ i >= cohort.popSize

(***************************************************************************)
(* C6: with no survival time recorded, calculate_cohort_outcomes fails     *)
(* with the division-by-zero error, which leaves Cohort.simulate;          *)
(* meanSurvivalTime (and the outcomes computed after it) is assigned no    *)
(* value.                                                                  *)
(***************************************************************************)
C6_NoDeathsRaises ==
    SimulateEnded /\ cohortOutcomes.survivalTimes = <<>> =>
        /\ pc = "raised"
        /\ raised = Some("ZeroDivisionError")
        /\ cohortOutcomes.meanSurvivalTime = None
        /\ cohortOutcomes.meanNumOfStrokes = None
        /\ cohortOutcomes.nLivingPatients = None

\* a cohort of patients who all lived to the horizon
C6_Witness ==
    /\ pc = "raised"
    /\ cohortOutcomes.survivalTimes = <<>>
    /\ Len(cohortOutcomes.nTotalStrokes) >= 2

(***************************************************************************)
(* C7: Cohort.simulate with sim_length <= 0 or popSize <= 0 fails with an  *)
(* InvalidArgumentError before any work: no patient is created or          *)
(* simulated and nothing is appended to survivalTimes or nTotalStrokes.    *)
(***************************************************************************)
C7_BadArgumentsRejected ==
    nSimulations > 0 /\ (sim_length <= 0 \/ cohort.popSize <= 0) =>
        /\ pc # "while"
        /\ cohortOutcomes.survivalTimes = <<>>
        /\ cohortOutcomes.nTotalStrokes = <<>>
        /\ SimulateEnded => raised = Some("InvalidArgumentError")

(***************************************************************************)
(* C8: the survival curve starts at initial_pop_size at time 0, has one    *)
(* decrement of 1 for every entry of survivalTimes (ties included), at the *)
(* times of survivalTimes taken in non-decreasing order, and so never      *)
(* increases.                                                              *)
(***************************************************************************)
PathTimes(path) == [k \in 1 .. (Len(path) - 1) |-> path[k + 1].time]

\* the multiset of the entries of a sequence
BagOf(xs) == [x \in {xs[k] : k \in 1 .. Len(xs)} |->
                Cardinality({k \in 1 .. Len(xs) : xs[k] = x})]

C8_SurvivalCurve ==
    pc = "returned" =>
        LET path == cohortOutcomes.nLivingPatients[1]
            times == cohortOutcomes.survivalTimes
        IN /\ path[1] = [time |-> 0, size |-> cohort.popSize]
           /\ Len(path) = Len(times) + 1
           /\ BagOf(PathTimes(path)) = BagOf(times)
           /\ \A k \in 1 .. (Len(path) - 1) :
                 /\ path[k + 1].size = path[k].size - 1
                 /\ path[k].time <= path[k + 1].time

\* the later patient died first
C8_Witness ==
    /\ pc = "returned"
    /\ \E k \in 1 .. (Len(cohortOutcomes.survivalTimes) - 1) :
          cohortOutcomes.survivalTimes[k] > cohortOutcomes.survivalTimes[k + 1]

(***************************************************************************)
(* C9 as claimed: whenever calculate_cohort_outcomes(initial_pop_size)     *)
(* runs, after any sequence of Cohort.simulate calls, nTotalStrokes has    *)
(* exactly initial_pop_size entries.                                       *)
(***************************************************************************)
C9_OneEntryPerPatientAlways ==
    AtCalculate => Len(cohortOutcomes.nTotalStrokes) = cohort.popSize

(***************************************************************************)
(* C9 as amended: when calculate_cohort_outcomes runs in the n-th          *)
(* Cohort.simulate of a cohort, nTotalStrokes has n * popSize entries, one *)
(* per simulated patient, zeros included: exactly initial_pop_size in the  *)
(* first Cohort.simulate of a freshly constructed cohort, where            *)
(* meanNumOfStrokes is then well defined whenever initial_pop_size > 0.    *)
(***************************************************************************)
C9_OneEntryPerSimulatedPatient ==
    AtCalculate =>
        /\ Len(cohortOutcomes.nTotalStrokes) = nSimulations * cohort.popSize
        /\ nSimulations = 1 =>
              /\ Len(cohortOutcomes.nTotalStrokes) = cohort.popSize
              /\ cohort.popSize > 0 => Divides(cohortOutcomes.nTotalStrokes)

\* the first simulation of a cohort, one patient with a stroke and one without
C9_Witness ==
    /\ AtCalculate
    /\ nSimulations = 1
    /\ \E k, m \in 1 .. Len(cohortOutcomes.nTotalStrokes) :
          cohortOutcomes.nTotalStrokes[k] = 0 /\ cohortOutcomes.nTotalStrokes[m] > 0

(***************************************************************************)
(* C10: a run of Patient.simulate on a fresh patient with the id, the rate *)
(* matrix and the sim_length of an earlier run makes the same calls of     *)
(* update and ends with the same currentState, survivalTime and nStrokes,  *)
(* whichever patients were simulated in between.                           *)
(***************************************************************************)
C10_Determinism ==
    Returned /\ history[patient.id] # None =>
        LET first == history[patient.id][1]
        IN first.sim_length = sim_length =>
              /\ first.trace = trace
              /\ first.stateMonitor = stateMonitor

\* a second run of a patient, after other patients, that took two steps
C10_Witness ==
    /\ Returned
    /\ nSimulations = 2
    /\ history[patient.id] # None
    /\ i >= 1
    /\ Len(trace) >= 2

\* the ids of the cohort's patients
CohortPatientIds == {PatientId(cohort, n) : n \in 0 .. (cohort.popSize - 1)}

\* the patients of the first simulation for whom a survival time was recorded
FirstRunDeaths ==
    {id \in CohortPatientIds :
        history[id] # None /\ history[id][1].stateMonitor.survivalTime # None}

\* what the first and the second simulation appended to the two sequences
FirstRunStrokes == SubSeq(cohortOutcomes.nTotalStrokes, 1, cohort.popSize)

SecondRunStrokes ==
    SubSeq(cohortOutcomes.nTotalStrokes, cohort.popSize + 1, 2 * cohort.popSize)

FirstRunTimes == SubSeq(cohortOutcomes.survivalTimes, 1, Cardinality(FirstRunDeaths))

SecondRunTimes ==
    SubSeq(cohortOutcomes.survivalTimes, Cardinality(FirstRunDeaths) + 1,
           Len(cohortOutcomes.survivalTimes))

\* the survival curve calculate_cohort_outcomes builds from these times
CurveOf(times) == PrevalencePathBatchUpdate(PathArguments(cohort.popSize, times))

(***************************************************************************)
(* C11: the same patient ids simulated and extracted in another order give *)
(* the same multiset of survival times and of stroke counts, and so the    *)
(* same meanSurvivalTime, meanNumOfStrokes and survival curve.             *)
(***************************************************************************)
C11_OrderIndependence ==
    nSimulations = 2 /\ (AtCalculate \/ SimulateEnded) =>
        /\ BagOf(SecondRunStrokes) = BagOf(FirstRunStrokes)
        /\ BagOf(SecondRunTimes) = BagOf(FirstRunTimes)
        /\ Mean(SecondRunStrokes) = Mean(FirstRunStrokes)
        /\ Mean(SecondRunTimes) = Mean(FirstRunTimes)
        /\ CurveOf(SecondRunTimes) = CurveOf(FirstRunTimes)

\* patients with different outcomes, taken in another order the second time
C11_Witness ==
    /\ nSimulations = 2
    /\ SimulateEnded
    /\ order # range(cohort.popSize)
    /\ SecondRunStrokes # FirstRunStrokes
    /\ SecondRunTimes # FirstRunTimes

(***************************************************************************)
(* C12: aggregation idempotence.  A call of calculate_cohort_outcomes that *)
(* follows another one with the same initial_pop_size and no               *)
(* extract_outcome in between leaves meanSurvivalTime, meanNumOfStrokes    *)
(* and the survival curve as the first call left them, leaves              *)
(* survivalTimes and nTotalStrokes unchanged, and raises iff the first     *)
(* call raised.                                                            *)
(***************************************************************************)
RecalculateStep ==
    /\ pc \in {"returned", "raised", "recalculated"}
    /\ pc' = "recalculated"

C12_AggregationIdempotent ==
    [][RecalculateStep =>
          /\ cohortOutcomes'.meanSurvivalTime = cohortOutcomes.meanSurvivalTime
          /\ cohortOutcomes'.meanNumOfStrokes = cohortOutcomes.meanNumOfStrokes
          /\ cohortOutcomes'.nLivingPatients = cohortOutcomes.nLivingPatients
          /\ cohortOutcomes'.survivalTimes = cohortOutcomes.survivalTimes
          /\ cohortOutcomes'.nTotalStrokes = cohortOutcomes.nTotalStrokes
          /\ raised' = raised]_vars

\* Recalculated after a simulation that recorded two deaths at different
\* times, so that the mean and the curve are not trivial.
C12_Witness ==
    /\ pc = "recalculated"
    /\ raised = None
    /\ Len(cohortOutcomes.survivalTimes) >= 2
    /\ cohortOutcomes.survivalTimes[1] # cohortOutcomes.survivalTimes[2]
    /\ cohortOutcomes.meanSurvivalTime # None
    /\ Len(cohortOutcomes.nLivingPatients[1]) >= 3

\* the patient ids Cohort.simulate gives in a cohort with this id and size
IdsOf(cohort_id, pop_size) ==
    {PatientId([id |-> cohort_id, popSize |-> pop_size], n) : n \in 0 .. (pop_size - 1)}

\* the non-negative cohort ids the cohort's ids are compared against
ComparedCohortIds == 0 .. (MaxPopSize + 1)

(***************************************************************************)
(* C13: the i-th patient of Cohort.simulate has the id                     *)
(* cohort.id * popSize + i; the ids of one cohort are pairwise distinct    *)
(* (so in a first simulation the i patients already simulated have i       *)
(* different ids), and the ids of two cohorts with different non-negative  *)
(* cohort ids and the same popSize are disjoint.  The cohort's id and size *)
(* never change, so the last two are stated of the constructed cohort.     *)
(***************************************************************************)
C13_PatientIds ==
    /\ pc = "while" => patient.id = cohort.id * cohort.popSize + i
    /\ pc = "while" /\ nSimulations = 1 =>
          /\ Cardinality({s \in Seeds : history[s] # None}) = i
          /\ history[patient.id] = None
    /\ pc = "idle" =>
          /\ Cardinality(IdsOf(cohort.id, cohort.popSize)) = cohort.popSize
          /\ \A c1, c2 \in ComparedCohortIds :
                c1 # c2 => IdsOf(c1, cohort.popSize) \cap IdsOf(c2, cohort.popSize) = {}

\* the second patient of a cohort of two is being simulated
C13_Witness ==
    /\ pc = "while"
    /\ nSimulations = 1
    /\ i = 1
    /\ cohort.popSize = 2
    /\ patient.id = cohort.id * 2 + 1
    /\ history[cohort.id * 2] # None

\* a step of Patient.simulate: its start, or an iteration of its loop
PatientSimulateStep == pc' = "while"

\* Cohort.simulate calls extract_outcome for the patient just simulated
ExtractStep == Returned /\ pc' = "for"

(***************************************************************************)
(* C14: frame of a patient's simulation.  A step of Patient.simulate       *)
(* leaves transRateMatrix, the cohort's outcomes and the recorded monitor  *)
(* of every other patient unchanged, and inside the loop changes of the    *)
(* patient only its stateMonitor; extract_outcome leaves the patient, the  *)
(* matrix and every recorded monitor unchanged and changes of the outcomes *)
(* only survivalTimes and nTotalStrokes.                                   *)
(***************************************************************************)
C14_Frame ==
    [][/\ PatientSimulateStep =>
             /\ transRateMatrix' = transRateMatrix
             /\ cohortOutcomes' = cohortOutcomes
             /\ history' = history
             /\ pc = "while" => patient'.id = patient.id
       /\ ExtractStep =>
             /\ patient' = patient
             /\ transRateMatrix' = transRateMatrix
             /\ \A s \in Seeds : history[s] # None => history'[s] = history[s]
             /\ cohortOutcomes' =
                   [cohortOutcomes EXCEPT
                       !.survivalTimes = cohortOutcomes'.survivalTimes,
                       !.nTotalStrokes = cohortOutcomes'.nTotalStrokes]]_vars

\* The second patient of a cohort has been simulated, with a stroke, and
\* its outcome extracted, after an earlier patient's death was recorded.
C14_Witness ==
    /\ pc = "for"
    /\ i = 2
    /\ nSimulations = 1
    /\ Len(trace) >= 2
    /\ patient.stateMonitor.nStrokes >= 1
    /\ Len(cohortOutcomes.survivalTimes) >= 1
    /\ history[PatientId(cohort, 0)] # None
    /\ history[PatientId(cohort, 0)][1].stateMonitor # patient.stateMonitor


\* the states designated absorbing: the death states
DesignatedAbsorbing == DeathStates

\* the state has no rate out although it is not designated absorbing
Undesignated(state) ==
    /\ state \notin DesignatedAbsorbing
    /\ IsAbsorbing(transRateMatrix, value(state))

\* a recorded run that stopped because the stepper reported its last state
\* absorbing, the state not being designated absorbing
EndedAsAbsorbing(run) ==
    /\ Undesignated(run.stateMonitor.currentState)
    /\ run.trace # <<>> => ~run.trace[Len(run.trace)].clamped

(***************************************************************************)
(* C15: a state that is not designated absorbing and has a total rate out  *)
(* of zero makes the simulation fail with an InvalidModelError at the      *)
(* latest when the stepper is asked for a step out of that state; no       *)
(* simulation returns normally after a patient's run stopped in such a     *)
(* state as if it were absorbing.                                          *)
(***************************************************************************)
C15_InvalidModelRejected ==
    [][/\ InLoop /\ Undesignated(stateMonitor.currentState) =>
             /\ raised' = Some("InvalidModelError")
             /\ pc' = "raised"
       /\ pc' = "returned" =>
             \A s \in Seeds : history'[s] # None => ~EndedAsAbsorbing(history'[s][1])]_vars


\* an iteration of Patient.simulate in which the stepper reports dt = None
AbsorbingStep == InLoop /\ IsAbsorbing(transRateMatrix, value(stateMonitor.currentState))

(***************************************************************************)
(* C16: in an iteration in which the stepper reports an absorbing state,   *)
(* Patient.simulate stops without calling update: the patient's monitor,   *)
(* the time and the calls of update are as before the iteration.  A        *)
(* patient whose initial state is absorbing has returned with the monitor  *)
(* of a new patient: currentState WELL, survivalTime None, nStrokes 0.     *)
(***************************************************************************)
C16_AbsorbingStopsWithoutUpdate ==
    [][/\ AbsorbingStep =>
             /\ if_stop'
             /\ patient' = patient
             /\ trace' = trace
             /\ t' = t
       /\ Returned /\ IsAbsorbing(transRateMatrix, value(NewStateMonitor.currentState)) =>
             /\ stateMonitor = NewStateMonitor
             /\ trace = <<>>
             /\ t = 0]_vars

\* The loop has stopped in an absorbing death state that the patient
\* entered before the horizon.
C16_Witness ==
    /\ Returned
    /\ trace # <<>>
    /\ ~trace[Len(trace)].clamped
    /\ stateMonitor.currentState \in DeathStates
    /\ stateMonitor.survivalTime = Some(t)
    /\ t < sim_length


\* a step inside Patient.simulate that keeps survivalTime, once it is set,
\* and does not call update with a death state
KeepsSurvivalTime ==
    pc = "while" /\ pc' = "while" /\ stateMonitor.survivalTime # None =>
        /\ patient'.stateMonitor.survivalTime = stateMonitor.survivalTime
        /\ ~(CallsUpdate /\ trace'[Len(trace')].new_state \in DeathStates)

(***************************************************************************)
(* C17, as claimed: for any rate matrix, survivalTime is assigned at most  *)
(* once in a run of Patient.simulate: once it is not None no step changes  *)
(* it and no update with a death state follows.                            *)
(***************************************************************************)
C17_AssignedOnceForAnyMatrix == [][KeepsSurvivalTime]_vars

(***************************************************************************)
(* C17, amended: for rate matrices in which STROKE_DEAD and NATURAL_DEATH  *)
(* are absorbing, survivalTime is assigned at most once in a run of        *)
(* Patient.simulate: once it is not None no step changes it and no update  *)
(* with a death state follows.                                             *)
(***************************************************************************)
C17_AssignedOnce == [][DeathStatesAbsorbing => KeepsSurvivalTime]_vars

\* After its death, recorded at a time after time 1, the patient's run has
\* come to the iteration that stops the loop.
C17_Witness ==
    /\ Returned
    /\ DeathStatesAbsorbing
    /\ stateMonitor.survivalTime # None
    /\ stateMonitor.survivalTime[1] > 1
    /\ Cardinality({k \in 1 .. Len(trace) : trace[k].new_state \in DeathStates}) = 1


\* the monitor `after' is what the three effects of update(time, new_state)
\* make of the monitor `before'
ThreeEffects(before, time, new_state, after) ==
    /\ after.survivalTime =
          IF new_state = "STROKE_DEAD" \/ new_state = "NATURAL_DEATH"
          THEN Some(time) ELSE before.survivalTime
    /\ after.nStrokes =
          IF new_state = "STROKE" \/ new_state = "STROKE_DEAD"
          THEN before.nStrokes + 1 ELSE before.nStrokes
    /\ after.currentState = new_state

\* monitors and times update is applied to
MonitorInputs ==
    [currentState : {HealthStates[k] : k \in 1 .. Len(HealthStates)},
     survivalTime : {None} \cup {Some(time) : time \in 0 .. MaxSimLength},
     nStrokes : 0 .. MaxDraws]

(***************************************************************************)
(* C18: update(time, new_state) has three independent effects, for every   *)
(* input and in every call made by Patient.simulate: survivalTime becomes  *)
(* time if new_state is STROKE_DEAD or NATURAL_DEATH and is unchanged      *)
(* otherwise, nStrokes grows by exactly 1 if new_state is STROKE or        *)
(* STROKE_DEAD and is unchanged otherwise, currentState becomes new_state. *)
(* An update with STROKE_DEAD both sets survivalTime and increments        *)
(* nStrokes.  The inputs do not depend on the state of the simulation, so  *)
(* "for every input" is evaluated at the first step of a behaviour.        *)
(***************************************************************************)
C18_UpdateEffects ==
    [][/\ CallsUpdate =>
             LET call == trace'[Len(trace')]
             IN /\ ThreeEffects(stateMonitor, call.time, call.new_state,
                                patient'.stateMonitor)
                /\ call.new_state = "STROKE_DEAD" =>
                      /\ patient'.stateMonitor.survivalTime = Some(call.time)
                      /\ patient'.stateMonitor.nStrokes = stateMonitor.nStrokes + 1
       /\ pc = "idle" =>
             \A m \in MonitorInputs, time \in 0 .. MaxSimLength,
                k \in 1 .. Len(HealthStates) :
                ThreeEffects(m, time, HealthStates[k], update(m, time, HealthStates[k]))]_vars

\* update was called with STROKE_DEAD for a patient who had had a stroke
C18_Witness ==
    /\ pc = "while"
    /\ trace # <<>>
    /\ trace[Len(trace)].new_state = "STROKE_DEAD"
    /\ ~trace[Len(trace)].clamped
    /\ stateMonitor.survivalTime = Some(trace[Len(trace)].time)
    /\ stateMonitor.nStrokes = 2


\* the patients of the first simulation whose final state is a death state
FirstRunFinalDeaths ==
    {id \in CohortPatientIds :
        history[id] # None /\ history[id][1].stateMonitor.currentState \in DeathStates}

\* the first Cohort.simulate of the cohort has returned without error
FirstSimulateReturned == pc = "returned" /\ nSimulations = 1

\* the living count of the curve is never below 0 and ends at the
\* population size minus the number of deaths
CurveEndsAt(deaths) ==
    LET path == cohortOutcomes.nLivingPatients[1]
    IN /\ \A k \in 1 .. Len(path) : path[k].size >= 0
       /\ path[Len(path)].size = cohort.popSize - deaths

(***************************************************************************)
(* C19, as claimed: after one Cohort.simulate on a new Cohort that         *)
(* completes without error, the number of recorded survival times is at    *)
(* most popSize and equals the number of patients whose final state is a   *)
(* death state, and the living count of the curve never drops below 0 and  *)
(* ends at popSize minus the number of those patients.                     *)
(***************************************************************************)
C19_DeathsAreFinalDeathStates ==
    FirstSimulateReturned =>
        /\ Len(cohortOutcomes.survivalTimes) <= cohort.popSize
        /\ Len(cohortOutcomes.survivalTimes) = Cardinality(FirstRunFinalDeaths)
        /\ CurveEndsAt(Cardinality(FirstRunFinalDeaths))

(***************************************************************************)
(* C19, amended: after one Cohort.simulate on a new Cohort that completes  *)
(* without error, the number of recorded survival times is at most popSize *)
(* and equals the number of patients whose survivalTime is set, which,     *)
(* when STROKE_DEAD and NATURAL_DEATH are absorbing, are the patients      *)
(* whose final state is a death state; the living count of the curve never *)
(* drops below 0 and ends at popSize minus that number.                    *)
(***************************************************************************)
C19_DeathsAreRecordedSurvivalTimes ==
    FirstSimulateReturned =>
        /\ Len(cohortOutcomes.survivalTimes) <= cohort.popSize
        /\ Len(cohortOutcomes.survivalTimes) = Cardinality(FirstRunDeaths)
        /\ DeathStatesAbsorbing => FirstRunDeaths = FirstRunFinalDeaths
        /\ CurveEndsAt(Cardinality(FirstRunDeaths))

\* one patient of two died and the other one is alive at the horizon
C19_Witness ==
    /\ FirstSimulateReturned
    /\ DeathStatesAbsorbing
    /\ cohort.popSize = 2
    /\ Cardinality(FirstRunDeaths) = 1
    /\ cohortOutcomes.nLivingPatients[1][Len(cohortOutcomes.nLivingPatients[1])].size = 1


=============================================================================
